---- MODULE Spec2Model ----
(***************************************************************************)
(* Model of the RPC client (client.go) and server (server.go).             *)
(*                                                                         *)
(* One client process performs one logical call: main's retry loop around  *)
(* sendRequest.  The server accepts connections and runs one handleConn    *)
(* per connection.  Connections 1..maxRetries are the client's attempts;   *)
(* connection 0 belongs to some other client of the same server.           *)
(* Time is in milliseconds.  Every timer holds the time left until it      *)
(* expires, and the clock jumps from one expiry to the next.               *)
(***************************************************************************)
EXTENDS Integers, Sequences, FiniteSets, TLC

(***************************************************************************)
(* Bounds of the model.                                                    *)
(***************************************************************************)
MaxRetries == 3          \* -retries ranges over 0..MaxRetries
MaxTimeoutSecs == 2      \* -timeout ranges over 1..MaxTimeoutSecs
MaxAttempts == 40        \* -retries of the call to a server that is down
MaxSleepMs == 100000     \* a longer sleep advances the model's clock by this much

(***************************************************************************)
(* Program constants.                                                      *)
(***************************************************************************)
BaseDelayMs == 200       \* client.go:69
JitterMax == 200         \* client.go:70
DefaultSlowSecs == 5     \* server.go:121
MsPerSec == 1000         \* time.Second / time.Millisecond

(***************************************************************************)
(* Strings are sequences of one-character strings, so that ToLower and     *)
(* TrimSpace can be computed character by character.                       *)
(***************************************************************************)
UpperLetters == <<"A","B","C","D","E","F","G","H","I","J","K","L","M",
                  "N","O","P","Q","R","S","T","U","V","W","X","Y","Z">>
LowerLetters == <<"a","b","c","d","e","f","g","h","i","j","k","l","m",
                  "n","o","p","q","r","s","t","u","v","w","x","y","z">>

LowerChar(c) ==
    IF \E i \in 1..26 : UpperLetters[i] = c
    THEN LowerLetters[CHOOSE i \in 1..26 : UpperLetters[i] = c]
    ELSE c

\* strings.ToLower
ToLower(s) == [i \in 1..Len(s) |-> LowerChar(s[i])]

\* unicode.IsSpace, restricted to the ASCII white space
IsSpace(c) == c \in {" ", "\t", "\n", "\r"}

RECURSIVE TrimLeft(_)
TrimLeft(s) == IF s # <<>> /\ IsSpace(Head(s)) THEN TrimLeft(Tail(s)) ELSE s

RECURSIVE TrimRight(_)
TrimRight(s) ==
    IF s # <<>> /\ IsSpace(s[Len(s)]) THEN TrimRight(SubSeq(s, 1, Len(s) - 1)) ELSE s

\* strings.TrimSpace
TrimSpace(s) == TrimRight(TrimLeft(s))

(***************************************************************************)
(* JSON values as decoded into interface{}: every number is a float64      *)
(* (kept in tenths, so 15 is 1.5), plus string, bool and null.             *)
(***************************************************************************)
EmptyMap == [k \in {} |-> 0]
Num10(n) == [t |-> "float64", num |-> n, str |-> <<>>, map |-> EmptyMap]
Num(n) == Num10(10 * n)
Str(s) == [t |-> "string", num |-> 0, str |-> s, map |-> EmptyMap]
Bool(b) == [t |-> "bool", num |-> IF b THEN 1 ELSE 0, str |-> <<>>, map |-> EmptyMap]
Null == [t |-> "null", num |-> 0, str |-> <<>>, map |-> EmptyMap]
IntVal(n) == [t |-> "int", num |-> n, str |-> <<>>, map |-> EmptyMap]
MapVal(m) == [t |-> "map", num |-> 0, str |-> <<>>, map |-> m]
TextVal(kind, n) == [t |-> kind, num |-> n, str |-> <<>>, map |-> EmptyMap]
NoResult == [t |-> "absent", num |-> 0, str |-> <<>>, map |-> EmptyMap]

\* Go's int(t) for a float64 t: truncation toward zero
TruncToInt(n10) == IF n10 >= 0 THEN n10 \div 10 ELSE -((-n10) \div 10)

Digits == <<"0","1","2","3","4","5","6","7","8","9">>
IsDigit(c) == \E i \in 1..10 : Digits[i] = c
DigitVal(c) == (CHOOSE i \in 1..10 : Digits[i] = c) - 1

RECURSIVE DigitsVal(_)
DigitsVal(s) ==
    IF s = <<>> THEN 0 ELSE 10 * DigitsVal(SubSeq(s, 1, Len(s) - 1)) + DigitVal(s[Len(s)])

\* strconv.Atoi: an optional sign followed by at least one digit, nothing else
Atoi(s) ==
    LET body == IF s # <<>> /\ Head(s) \in {"+", "-"} THEN Tail(s) ELSE s
        ok == body # <<>> /\ \A i \in 1..Len(body) : IsDigit(body[i])
    IN  [ok |-> ok,
         v |-> IF ~ok THEN 0
               ELSE IF Head(s) = "-" THEN -DigitsVal(body) ELSE DigitsVal(body)]

(***************************************************************************)
(* Errors and responses.                                                   *)
(***************************************************************************)
ErrMsg(f, a) == [fmt |-> f, arg |-> a]
NoErrMsg == ErrMsg("", <<>>)

\* server.go asInt
asInt(v) ==
    CASE v.t = "float64" -> [ok |-> TRUE, v |-> TruncToInt(v.num)]
      [] v.t = "int" -> [ok |-> TRUE, v |-> v.num]
      [] v.t = "string" /\ Atoi(v.str).ok -> [ok |-> TRUE, v |-> Atoi(v.str).v]
      [] OTHER -> [ok |-> FALSE, v |-> 0]

\* a getTwoInts that takes a missing second parameter for 0
getTwoInts_missingAsZero(params, ka, kb) ==
    IF ka \notin DOMAIN params
    THEN [ok |-> FALSE, a |-> 0, b |-> 0, err |-> ErrMsg("missing param '%s'", <<ka>>)]
    ELSE IF ~asInt(params[ka]).ok
    THEN [ok |-> FALSE, a |-> 0, b |-> 0,
          err |-> ErrMsg("param '%s' error: not an integer", <<ka>>)]
    ELSE IF kb \notin DOMAIN params
    THEN [ok |-> TRUE, a |-> asInt(params[ka]).v, b |-> 0, err |-> NoErrMsg]
    ELSE IF ~asInt(params[kb]).ok
    THEN [ok |-> FALSE, a |-> 0, b |-> 0,
          err |-> ErrMsg("param '%s' error: not an integer", <<kb>>)]
    ELSE [ok |-> TRUE, a |-> asInt(params[ka]).v, b |-> asInt(params[kb]).v,
          err |-> NoErrMsg]

\* server.go getTwoInts
getTwoInts(params, ka, kb) ==
    IF ka \notin DOMAIN params
    THEN [ok |-> FALSE, a |-> 0, b |-> 0, err |-> ErrMsg("missing param '%s'", <<ka>>)]
    ELSE IF kb \notin DOMAIN params
    THEN [ok |-> FALSE, a |-> 0, b |-> 0, err |-> ErrMsg("missing param '%s'", <<kb>>)]
    ELSE IF ~asInt(params[ka]).ok
    THEN [ok |-> FALSE, a |-> 0, b |-> 0,
          err |-> ErrMsg("param '%s' error: not an integer", <<ka>>)]
    ELSE IF ~asInt(params[kb]).ok
    THEN [ok |-> FALSE, a |-> 0, b |-> 0,
          err |-> ErrMsg("param '%s' error: not an integer", <<kb>>)]
    ELSE [ok |-> TRUE, a |-> asInt(params[ka]).v, b |-> asInt(params[kb]).v,
          err |-> NoErrMsg]

\* server.go reverseString
reverseString(s) == [i \in 1..Len(s) |-> s[Len(s) + 1 - i]]

\* server.go processRequest, case "slow": the seconds to sleep
slowSecs(params) ==
    IF "sleep" \notin DOMAIN params THEN DefaultSlowSecs
    ELSE LET sv == params["sleep"] IN
         CASE sv.t = "float64" -> TruncToInt(sv.num)
           [] sv.t = "string" /\ Atoi(sv.str).ok -> Atoi(sv.str).v
           [] OTHER -> DefaultSlowSecs

Resp(id, status, result, err) ==
    [id |-> id, status |-> status, result |-> result, error |-> err]

mAdd == <<"a","d","d">>
mReverse == <<"r","e","v","e","r","s","e","_","s","t","r","i","n","g">>
mGetTime == <<"g","e","t","_","t","i","m","e">>
mSlow == <<"s","l","o","w">>
mEcho == <<"e","c","h","o">>
mCrash == <<"c","r","a","s","h">>

\* a processRequest with a case for crash
processRequest_crashCase(req) ==
    LET m == ToLower(req.method) IN
    CASE m = mAdd ->
            LET g == getTwoInts(req.params, "a", "b") IN
            IF ~g.ok THEN Resp(req.id, "ERROR", NoResult, g.err)
            ELSE Resp(req.id, "OK", IntVal(g.a + g.b), NoErrMsg)
      [] m = mReverse ->
            IF "s" \notin DOMAIN req.params
            THEN Resp(req.id, "ERROR", NoResult, ErrMsg("missing param 's'", <<>>))
            ELSE IF req.params["s"].t # "string"
            THEN Resp(req.id, "ERROR", NoResult, ErrMsg("param 's' must be string", <<>>))
            ELSE Resp(req.id, "OK", Str(reverseString(req.params["s"].str)), NoErrMsg)
      [] m = mGetTime -> Resp(req.id, "OK", TextVal("time", 0), NoErrMsg)
      [] m = mSlow -> Resp(req.id, "OK", TextVal("slept", slowSecs(req.params)), NoErrMsg)
      [] m = mEcho -> Resp(req.id, "OK", MapVal(req.params), NoErrMsg)
      [] m = mCrash -> Resp(req.id, "OK", TextVal("crashing", 0), NoErrMsg)
      [] OTHER -> Resp(req.id, "ERROR", NoResult, ErrMsg("unknown method '%s'", req.method))

\* server.go processRequest (what the clock reads for get_time is left out)
processRequest(req) ==
    LET m == ToLower(req.method) IN
    CASE m = mAdd ->
            LET g == getTwoInts(req.params, "a", "b") IN
            IF ~g.ok THEN Resp(req.id, "ERROR", NoResult, g.err)
            ELSE Resp(req.id, "OK", IntVal(g.a + g.b), NoErrMsg)
      [] m = mReverse ->
            IF "s" \notin DOMAIN req.params
            THEN Resp(req.id, "ERROR", NoResult, ErrMsg("missing param 's'", <<>>))
            ELSE IF req.params["s"].t # "string"
            THEN Resp(req.id, "ERROR", NoResult, ErrMsg("param 's' must be string", <<>>))
            ELSE Resp(req.id, "OK", Str(reverseString(req.params["s"].str)), NoErrMsg)
      [] m = mGetTime -> Resp(req.id, "OK", TextVal("time", 0), NoErrMsg)
      [] m = mSlow -> Resp(req.id, "OK", TextVal("slept", slowSecs(req.params)), NoErrMsg)
      [] m = mEcho -> Resp(req.id, "OK", MapVal(req.params), NoErrMsg)
      [] OTHER -> Resp(req.id, "ERROR", NoResult, ErrMsg("unknown method '%s'", req.method))


(***************************************************************************)
(* Requests, and the calls and payloads the model draws its inputs from.   *)
(***************************************************************************)
Req(id, method, params) == [id |-> id, method |-> method, params |-> params]
NoReq == Req(<<>>, <<>>, EmptyMap)
NoResp == Resp(<<>>, "", NoResult, NoErrMsg)

Call(method, params) == [method |-> method, params |-> params]

\* -method and -params of the client command line
Calls ==
    { Call(mAdd, [k \in {"a", "b"} |-> IF k = "a" THEN Num(5) ELSE Num(7)]),
      Call(<<"A","D","D">>, [k \in {"a"} |-> Num(5)]),
      Call(mAdd, [k \in {"a", "b"} |-> IF k = "a" THEN Bool(TRUE) ELSE Num(1)]),
      Call(mAdd, [k \in {"a", "b"} |-> IF k = "a" THEN Str(<<"3">>) ELSE Num10(15)]),
      Call(mReverse, [k \in {"s"} |-> Str(<<"a", "b">>)]),
      Call(mReverse, EmptyMap),
      Call(mReverse, [k \in {"s"} |-> Num(1)]),
      Call(mGetTime, EmptyMap),
      Call(mSlow, [k \in {"sleep"} |-> Num(5)]),
      Call(mSlow, [k \in {"sleep"} |-> Str(<<"1">>)]),
      Call(<<"S","l","o","w">>, [k \in {"sleep"} |-> Bool(TRUE)]),
      Call(mEcho, [k \in {"a"} |-> Num(5)]),
      Call(mCrash, EmptyMap),
      Call(<<"C","r","a","s","h">>, EmptyMap),
      Call(<<"N","o","p","e">>, EmptyMap) }

\* genUUID: the ids it can return contain no white space
CallIds == { <<"u", "1">> }
OtherId == <<"o", "1">>

\* what the other client writes on its connection: a request, or bytes that
\* are no JSON document
OtherPayloads ==
    { [kind |-> "request", req |-> Req(OtherId, mCrash, EmptyMap)],
      [kind |-> "garbage", req |-> NoReq] }

\* what travels towards the client: an encoded response, or bytes that are none
Bytes(resp) == [kind |-> "response", resp |-> resp]
GarbageBytes == [kind |-> "garbage", resp |-> NoResp]
NoBytes == [kind |-> "none", resp |-> NoResp]

\* what a peer that is not this server may answer to a request r
PeerAnswers(r) ==
    { Bytes(Resp(<<" ">> \o r.id, "OK", Num(0), NoErrMsg)),
      Bytes(Resp(r.id \o <<"\n">>, "ERROR", NoResult, ErrMsg("busy", <<>>))),
      Bytes(Resp(r.id, "ok", Num(0), NoErrMsg)),
      Bytes(Resp(<<"x", "9">>, "OK", Num(0), NoErrMsg)),
      Bytes(Resp(<<>>, "ERROR", NoResult, ErrMsg("invalid json", <<>>))),
      GarbageBytes }

\* the byte crypto/rand hands to randInt
RandBytes == {0, 200}

(***************************************************************************)
(* Client: pure parts of main and sendRequest.                             *)
(***************************************************************************)
Err(kind, cause) == [kind |-> kind, cause |-> cause]
NilErr == Err("nil", "")

\* client.go randInt, with b the random byte
randInt(min, max, b) == IF max <= min THEN min ELSE min + (b % (max - min + 1))

RECURSIVE Pow2(_)
Pow2(n) == IF n = 0 THEN 1 ELSE 2 * Pow2(n - 1)

(***************************************************************************)
(* Go's int64 and time.Duration: a word is a sequence of bytes, the least  *)
(* significant first; arithmetic on n bytes drops the carry out of the     *)
(* last byte, which is arithmetic modulo 2^(8n).  An operator binds its    *)
(* word argument to a variable first, so that the argument is computed     *)
(* once and not once for every byte that is read from it.                  *)
(***************************************************************************)
WordLen == 8

\* the constant c (0 <= c < 2^16) as a word of n bytes
FromInt(n, c) == [i \in 1..n |-> IF i = 1 THEN c % 256 ELSE IF i = 2 THEN c \div 256 ELSE 0]

\* 1 << s on n bytes: 0 when s is the width or more
Shl1(n, s) == [i \in 1..n |-> IF i - 1 = s \div 8 THEN Pow2(s % 8) ELSE 0]

RECURSIVE MulCarry(_, _, _, _)
MulCarry(w, m, i, c) ==
    IF i > Len(w) THEN <<>>
    ELSE LET p == w[i] * m + c IN <<p % 256>> \o MulCarry(w, m, i + 1, p \div 256)

\* w * m for a small m, on Len(w) bytes
MulSmall(w, m) == CHOOSE r \in {MulCarry(v, m, 1, 0) : v \in {w}} : TRUE

RECURSIVE AddCarry(_, _, _, _)
AddCarry(a, b, i, c) ==
    IF i > Len(a) THEN <<>>
    ELSE LET t == a[i] + b[i] + c IN <<t % 256>> \o AddCarry(a, b, i + 1, t \div 256)

\* a + b on Len(a) bytes
AddWord(a, b) == CHOOSE r \in {AddCarry(v[1], v[2], 1, 0) : v \in {<<a, b>>}} : TRUE

\* the sign bit of a two's complement word
Negative(w) == w[Len(w)] >= 128

RECURSIVE DivRem(_, _, _, _)
DivRem(w, m, i, r) ==
    IF i = 0 THEN <<>>
    ELSE LET t == r * 256 + w[i] IN DivRem(w, m, i - 1, t % m) \o <<t \div m>>

\* w / m for a non-negative w and a small m
DivSmall(w, m) == CHOOSE r \in {DivRem(v, m, Len(v), 0) : v \in {w}} : TRUE

RECURSIVE ValUpTo(_, _, _)
ValUpTo(w, i, cap) ==
    IF i > Len(w) THEN 0
    ELSE CHOOSE r \in { IF hi >= cap \/ hi * 256 + w[i] >= cap THEN cap
                        ELSE hi * 256 + w[i] : hi \in {ValUpTo(w, i + 1, cap)} } : TRUE

\* the value of a non-negative word, or cap if the value is cap or more
ToInt(w, cap) == CHOOSE r \in {ValUpTo(v, 1, cap) : v \in {w}} : TRUE

RECURSIVE GeqFrom(_, _, _)
GeqFrom(a, b, i) ==
    IF i = 0 THEN TRUE
    ELSE IF a[i] > b[i] THEN TRUE
    ELSE IF a[i] < b[i] THEN FALSE
    ELSE GeqFrom(a, b, i - 1)

\* a >= b for non-negative words of one length
GeqWord(a, b) == \E v \in {<<a, b>>} : GeqFrom(v[1], v[2], Len(v[1]))

\* w * time.Millisecond
Milliseconds(w) == MulSmall(MulSmall(w, MsPerSec), MsPerSec)

\* client.go:69: time.Duration(200*(1<<uint(attempt-1))) * time.Millisecond
backoff(k) == Milliseconds(MulSmall(Shl1(WordLen, k - 1), BaseDelayMs))

\* client.go:70: time.Duration(randInt(0, 200)) * time.Millisecond
jitter(b) == Milliseconds(FromInt(WordLen, randInt(0, JitterMax, b)))

\* client.go:69-71: backoff + jitter, for every attempt and random byte
sleepArgs == [k \in 1..(MaxAttempts + 1), b \in RandBytes |-> AddWord(backoff(k), jitter(b))]

\* client.go:71: the Duration handed to time.Sleep
sleepArg(k, b) == sleepArgs[k, b]

\* time.Sleep(d) returns at once for d <= 0; the time it sleeps, in
\* milliseconds, as far as the model's clock runs
sleepTime(d) ==
    CHOOSE t \in { IF Negative(v) THEN 0
                   ELSE ToInt(DivSmall(DivSmall(v, MsPerSec), MsPerSec), MaxSleepMs) :
                   v \in {d} } : TRUE

\* client.go:71: the time time.Sleep takes after attempt k with random byte b
sleepTimes == [k \in 1..(MaxAttempts + 1), b \in RandBytes |-> sleepTime(sleepArgs[k, b])]

\* a client that makes a new id for every attempt
attemptRequest_freshId(r, k) == [r EXCEPT !.id = <<"u", Digits[k + 1]>>]

\* client.go:59: the request main hands to attempt k
attemptRequest(r, k) == r

\* a loop that goes round once more
loopCond_offByOne(k, maxRetries) == k <= maxRetries + 1

\* client.go:57: the loop condition
loopCond(k, maxRetries) == k <= maxRetries

\* a client that takes an ERROR response for a final answer
isSuccess_appFinal(err) == err = NilErr \/ err.kind = "server error"

\* client.go:60: the test that ends the loop
isSuccess(err) == err = NilErr

\* a check that does not look at the status
checkResponse_ignoreStatus(resp, r) ==
    IF TrimSpace(resp.id) # r.id
    THEN [resp |-> NoResp, hasResp |-> FALSE, err |-> Err("mismatched request id", "")]
    ELSE [resp |-> resp, hasResp |-> TRUE, err |-> NilErr]

\* client.go:101-109: what sendRequest returns for a decoded response
checkResponse(resp, r) ==
    IF TrimSpace(resp.id) # r.id
    THEN [resp |-> NoResp, hasResp |-> FALSE, err |-> Err("mismatched request id", "")]
    ELSE IF resp.status # "OK"
    THEN [resp |-> resp, hasResp |-> TRUE, err |-> Err("server error", "")]
    ELSE [resp |-> resp, hasResp |-> TRUE, err |-> NilErr]


(***************************************************************************)
(* State.                                                                  *)
(***************************************************************************)
VARIABLES
    flags,      \* the client's command line: method, params, timeout, maxRetries
    req,        \* client.go:49 the request of the logical call
    attempt,    \* client.go:57 the loop variable
    pc,         \* where the client is
    timer,      \* time left on the client's timer: dial timeout, deadline or sleep
    lastErr,    \* client.go:56
    printed,    \* client.go:63 the response main wrote to standard output
    cur,        \* the latest call of sendRequest: its request, result and times
    nCalls,     \* calls of sendRequest so far
    nSleeps,    \* calls of time.Sleep by main so far
    sentReqs,   \* the requests handed to sendRequest so far
    conn,       \* the connections, by id
    serverUp,   \* the server process is running and listening
    execs       \* calls of processRequest for the client's request id so far

clientVars == <<flags, req, attempt, pc, timer, lastErr, printed, cur, nCalls,
                nSleeps, sentReqs>>
vars == <<flags, req, attempt, pc, timer, lastErr, printed, cur, nCalls,
          nSleeps, sentReqs, conn, serverUp, execs>>

\* connections 1..MaxRetries are those of the client's attempts, by attempt;
\* the remaining one is the other client's
ConnIds == 0..MaxRetries
OtherConn == CHOOSE c \in ConnIds : c \notin 1..MaxRetries

\* a connection nobody has opened
NoConn ==
    [cst |-> "none",      \* the client's end: none, open, closed
     c2s |-> "none",      \* bytes the client wrote: none, request, garbage
     wire |-> NoReq,      \* the request among those bytes
     s2c |-> <<>>,        \* the responses written towards the client
     hst |-> "none",      \* the server's end: none, pending (not yet accepted),
                          \* AWAIT_REQUEST, DISPATCH, RESPOND, CLOSED, KILLED
     hreq |-> NoReq,      \* server.go:61 the handler's decoded request
     hresp |-> NoResp,    \* server.go:69 the handler's response
     hwake |-> 0,         \* time left until processRequest returns
     decodeErr |-> FALSE, \* server.go:62 the decode failed
     nReq |-> 0,          \* requests the client wrote on the connection
     nDec |-> 0,          \* requests the handler decoded
     nDisp |-> 0,         \* calls of processRequest by the handler
     nEnc |-> 0,          \* responses the handler encoded
     nRead |-> 0]         \* responses the client decoded

\* a connection closed at both ends: nothing of it is left in either process
Gone == [NoConn EXCEPT !.cst = "closed", !.hst = "CLOSED"]
Finished(h) == h.cst = "closed" /\ h.hst \in {"CLOSED", "KILLED"}
Forget(cs) == [c \in ConnIds |-> IF Finished(cs[c]) THEN Gone ELSE cs[c]]

TimeoutMs == flags.timeout * MsPerSec

\* the record of a call of sendRequest with request r
Attempt(r) ==
    [req |-> r, wrote |-> FALSE, err |-> Err("pending", ""), resp |-> NoResp,
     hasResp |-> FALSE, got |-> NoBytes, slept |-> <<>>, elapsed |-> 0]

\* client.go:49-56: main has built the request and is about to enter its loop
Started ==
    /\ \E id \in CallIds : req = Req(id, flags.method, flags.params)
    /\ attempt = 1
    /\ pc = "loop"
    /\ timer = 0
    /\ lastErr = NilErr
    /\ printed = NoResp
    /\ cur = Attempt(NoReq)
    /\ nCalls = 0
    /\ nSleeps = 0
    /\ sentReqs = {}
    /\ conn = [c \in ConnIds |-> NoConn]
    /\ execs = 0

Init ==
    /\ flags \in { [method |-> c.method, params |-> c.params,
                    timeout |-> t, maxRetries |-> n] :
                   c \in Calls, t \in 1..MaxTimeoutSecs, n \in 0..MaxRetries }
    /\ Started
    /\ serverUp = TRUE

(***************************************************************************)
(* Client: main's loop and sendRequest.                                    *)
(***************************************************************************)
\* client.go:57-59, 78: the loop goes round and sendRequest starts to dial
\* (the model forgets the connections that are closed at both ends)
StartAttempt ==
    /\ pc = "loop"
    /\ loopCond(attempt, flags.maxRetries)
    /\ cur' = Attempt(attemptRequest(req, attempt))
    /\ sentReqs' = sentReqs \cup {attemptRequest(req, attempt)}
    /\ nCalls' = nCalls + 1
    /\ pc' = "dialing"
    /\ timer' = TimeoutMs
    /\ conn' = Forget(conn)
    /\ UNCHANGED <<flags, req, attempt, lastErr, printed, nSleeps, serverUp, execs>>

\* client.go:57, 73: the loop ends and main reports that all attempts failed
Exhausted ==
    /\ pc = "loop"
    /\ ~loopCond(attempt, flags.maxRetries)
    /\ pc' = "exhausted"
    /\ UNCHANGED <<flags, req, attempt, timer, lastErr, printed, cur, nCalls, nSleeps,
                   sentReqs, conn, serverUp, execs>>

\* a main that prints the response sendRequest returned with a server error
Returned_printsFailed(res, b, cs) ==
    IF res.err = NilErr
    THEN /\ printed' = res.resp
         /\ pc' = "success"
         /\ cur' = [cur EXCEPT !.err = res.err, !.resp = res.resp,
                               !.hasResp = res.hasResp, !.got = res.got]
         /\ conn' = cs
         /\ UNCHANGED <<flags, req, attempt, timer, lastErr, nCalls, nSleeps, sentReqs,
                        serverUp, execs>>
    ELSE LET d == sleepArg(attempt, b) IN
         /\ lastErr' = res.err
         /\ printed' = IF res.hasResp THEN res.resp ELSE printed
         /\ pc' = "backoff"
         /\ timer' = sleepTimes[attempt, b]
         /\ nSleeps' = nSleeps + 1
         /\ cur' = [cur EXCEPT !.err = res.err, !.resp = res.resp,
                               !.hasResp = res.hasResp, !.got = res.got,
                               !.slept = d]
         /\ conn' = cs
         /\ UNCHANGED <<flags, req, attempt, nCalls, sentReqs, serverUp, execs>>

\* client.go:60-71 for a sendRequest that returned (resp, err), with random byte b;
\* the deferred conn.Close of client.go:82 has run and left the connections cs
Returned(res, b, cs) ==
    IF isSuccess(res.err)
    THEN /\ printed' = res.resp
         /\ pc' = "success"
         /\ cur' = [cur EXCEPT !.err = res.err, !.resp = res.resp,
                               !.hasResp = res.hasResp, !.got = res.got]
         /\ conn' = cs
         /\ UNCHANGED <<flags, req, attempt, timer, lastErr, nCalls, nSleeps, sentReqs,
                        serverUp, execs>>
    ELSE LET d == sleepArg(attempt, b) IN
         /\ lastErr' = res.err
         /\ pc' = "backoff"
         /\ timer' = sleepTimes[attempt, b]
         /\ nSleeps' = nSleeps + 1
         /\ cur' = [cur EXCEPT !.err = res.err, !.resp = res.resp,
                               !.hasResp = res.hasResp, !.got = res.got,
                               !.slept = d]
         /\ conn' = cs
         /\ UNCHANGED <<flags, req, attempt, printed, nCalls, sentReqs, serverUp, execs>>

Failure(kind, cause) ==
    [resp |-> NoResp, hasResp |-> FALSE, err |-> Err(kind, cause), got |-> NoBytes]

\* a sendRequest that returns without closing its connection
ClientClosed_leak(c) == [conn EXCEPT ![c].s2c = <<>>]

\* conn.Close on the client: bytes it has not read are dropped
ClientClosed(c) == [conn EXCEPT ![c].cst = "closed", ![c].s2c = <<>>]

\* client.go:78-81: the dial fails (refused, unreachable, or timed out)
DialFail ==
    /\ pc = "dialing"
    /\ \E b \in RandBytes :
         Returned(Failure("dial error", IF timer = 0 THEN "timeout" ELSE "refused"),
                  b, conn)

\* client.go:78, 85-88: the dial succeeds and the deadline is set
DialOK ==
    /\ pc = "dialing"
    /\ serverUp
    /\ conn' = [conn EXCEPT ![attempt] = [NoConn EXCEPT !.cst = "open", !.hst = "pending"]]
    /\ pc' = "connected"
    /\ timer' = TimeoutMs
    /\ UNCHANGED <<flags, req, attempt, lastErr, printed, cur, nCalls, nSleeps, sentReqs,
                   serverUp, execs>>

\* client.go:90-91: the request is written
EncodeOK ==
    /\ pc = "connected"
    /\ conn' = [conn EXCEPT ![attempt].c2s = "request", ![attempt].wire = cur.req,
                            ![attempt].nReq = @ + 1]
    /\ cur' = [cur EXCEPT !.wrote = TRUE]
    /\ pc' = "sent"
    /\ UNCHANGED <<flags, req, attempt, timer, lastErr, printed, nCalls, nSleeps,
                   sentReqs, serverUp, execs>>

\* client.go:91-93: the write fails, with nothing or a part of the request sent
EncodeFail ==
    /\ pc = "connected"
    /\ \E b \in RandBytes, part \in {"none", "garbage"} :
         Returned(Failure("encode/send", IF timer = 0 THEN "timeout" ELSE "reset"),
                  b, [ClientClosed(attempt) EXCEPT ![attempt].c2s = part])

ServerGone(c) == conn[c].hst \in {"CLOSED", "KILLED"}

\* client.go:95-99: dec.Decode on the bytes received
decodeResponse(bytes, r) ==
    LET res == IF bytes.kind # "response" THEN Failure("decode/receive", "syntax")
               ELSE checkResponse(bytes.resp, r)
    IN  [resp |-> res.resp, hasResp |-> res.hasResp, err |-> res.err, got |-> bytes]

\* client.go:95-109: a response is decoded and checked
RecvResponse ==
    /\ pc = "sent"
    /\ conn[attempt].s2c # <<>>
    /\ \E b \in RandBytes :
         Returned(decodeResponse(Head(conn[attempt].s2c), cur.req), b,
                  [ClientClosed(attempt) EXCEPT ![attempt].nRead = @ + 1])

\* client.go:97-99: the read ends without a response: the server closed the
\* connection, or its process died and the connection was reset
RecvFail ==
    /\ pc = "sent"
    /\ \/ ServerGone(attempt) /\ conn[attempt].s2c = <<>>
       \/ conn[attempt].hst = "KILLED"
    /\ \E b \in RandBytes :
         Returned(Failure("decode/receive", "eof"), b, ClientClosed(attempt))

\* client.go:97-99: the deadline passes before a response is read
RecvTimeout ==
    /\ pc = "sent"
    /\ timer = 0
    /\ \E b \in RandBytes :
         Returned(Failure("decode/receive", "timeout"), b, ClientClosed(attempt))

\* client.go:71, 57: the sleep ends and the loop variable is incremented
Wake ==
    /\ pc = "backoff"
    /\ timer = 0
    /\ attempt' = attempt + 1
    /\ pc' = "loop"
    /\ UNCHANGED <<flags, req, timer, lastErr, printed, cur, nCalls, nSleeps, sentReqs,
                   conn, serverUp, execs>>

(***************************************************************************)
(* Server: main's accept loop and handleConn.                              *)
(***************************************************************************)
\* a server that sleeps milliseconds where seconds are meant
sleepMs_millis(r) ==
    IF ToLower(r.method) = mSlow /\ slowSecs(r.params) > 0 THEN slowSecs(r.params) ELSE 0

\* server.go:133: how long processRequest blocks, in milliseconds
sleepMs(r) ==
    IF ToLower(r.method) = mSlow /\ slowSecs(r.params) > 0
    THEN slowSecs(r.params) * MsPerSec
    ELSE 0

\* server.go:189-196 the response sendError composes
errorResponse(id, msg) == Resp(id, "ERROR", NoResult, ErrMsg(msg, <<>>))

\* server.go:73
isCrash(r) == ToLower(r.method) = mCrash

HandlerLive(h) == h.hst \in {"pending", "AWAIT_REQUEST", "DISPATCH", "RESPOND"}

\* a handler that returns where it should leave the process
osExit_returns(cs) == cs

\* server.go:78 os.Exit: every connection of the process goes down with it
osExit(cs) ==
    [c \in ConnIds |-> IF HandlerLive(cs[c]) THEN [cs[c] EXCEPT !.hst = "KILLED"] ELSE cs[c]]

\* server.go:48-53: a connection is accepted and handed to a new handler
Accept(c) ==
    /\ serverUp
    /\ conn[c].hst = "pending"
    /\ conn' = [conn EXCEPT ![c].hst = "AWAIT_REQUEST"]
    /\ UNCHANGED <<clientVars, serverUp, execs>>

\* a handler that calls processRequest twice for one request
HandlerDecode_twice(c) ==
    /\ conn[c].hst = "AWAIT_REQUEST"
    /\ conn[c].c2s = "request"
    /\ conn' = [conn EXCEPT ![c].hst = "DISPATCH", ![c].hreq = conn[c].wire,
                            ![c].nDec = @ + 1, ![c].nDisp = @ + 2,
                            ![c].hwake = sleepMs(conn[c].wire)]
    /\ execs' = IF conn[c].wire.id = req.id THEN execs + 2 ELSE execs
    /\ UNCHANGED <<clientVars, serverUp>>

\* server.go:60-69: the request is decoded and processRequest is entered
HandlerDecode(c) ==
    /\ conn[c].hst = "AWAIT_REQUEST"
    /\ conn[c].c2s = "request"
    /\ conn' = [conn EXCEPT ![c].hst = "DISPATCH", ![c].hreq = conn[c].wire,
                            ![c].nDec = @ + 1, ![c].nDisp = @ + 1,
                            ![c].hwake = sleepMs(conn[c].wire)]
    /\ execs' = IF conn[c].wire.id = req.id THEN execs + 1 ELSE execs
    /\ UNCHANGED <<clientVars, serverUp>>

\* a handler that sends the error and, lacking the return, goes on to dispatch
HandlerDecodeFail_noReturn(c) ==
    /\ conn[c].hst = "AWAIT_REQUEST"
    /\ \/ conn[c].c2s = "garbage"
       \/ conn[c].c2s = "none" /\ conn[c].cst = "closed"
    /\ conn' = [conn EXCEPT ![c].hst = "DISPATCH", ![c].decodeErr = TRUE,
                            ![c].hresp = errorResponse(<<>>, "invalid json"),
                            ![c].nEnc = @ + 1, ![c].nDisp = @ + 1]
    /\ UNCHANGED <<clientVars, serverUp, execs>>

\* server.go:62-64: the bytes are no request, or the peer closed before sending one
HandlerDecodeFail(c) ==
    /\ conn[c].hst = "AWAIT_REQUEST"
    /\ \/ conn[c].c2s = "garbage"
       \/ conn[c].c2s = "none" /\ conn[c].cst = "closed"
    /\ conn' = [conn EXCEPT ![c].hst = "RESPOND", ![c].decodeErr = TRUE,
                            ![c].hresp = errorResponse(<<>>, "invalid json")]
    /\ UNCHANGED <<clientVars, serverUp, execs>>

\* server.go:69, 88-144: processRequest returns its response
HandlerProcessed(c) ==
    /\ conn[c].hst = "DISPATCH"
    /\ conn[c].hwake = 0
    /\ conn' = [conn EXCEPT ![c].hst = "RESPOND",
                            ![c].hresp = processRequest(conn[c].hreq)]
    /\ UNCHANGED <<clientVars, serverUp, execs>>

\* a server that keeps its connections by request id and writes the response
\* to the one it finds under the id
Encoded_byId(cs, c) ==
    LET same == {d \in ConnIds : cs[d].cst = "open" /\ cs[d].wire.id = cs[c].hresp.id}
        to == IF same = {} THEN c ELSE CHOOSE d \in same : \A e \in same : e <= d
    IN  [cs EXCEPT ![c].nEnc = @ + 1,
                   ![to].s2c = IF cs[to].cst = "open" THEN Append(@, Bytes(cs[c].hresp)) ELSE @]

\* enc.Encode(resp): the bytes reach the peer unless it has closed its end
Encoded(cs, c) ==
    [cs EXCEPT ![c].nEnc = @ + 1,
               ![c].s2c = IF cs[c].cst = "open" THEN Append(@, Bytes(cs[c].hresp)) ELSE @]

\* a handler that waits for another request on the connection
HandlerRespond_keepAlive(c) ==
    /\ conn[c].hst = "RESPOND"
    /\ conn[c].decodeErr \/ ~isCrash(conn[c].hreq)
    /\ conn' = [Encoded(conn, c) EXCEPT ![c].hst = "AWAIT_REQUEST"]
    /\ UNCHANGED <<clientVars, serverUp, execs>>

\* server.go:64-65, 81-86, 58: the response is encoded and the connection closed
HandlerRespond(c) ==
    /\ conn[c].hst = "RESPOND"
    /\ conn[c].decodeErr \/ ~isCrash(conn[c].hreq)
    /\ conn' = [Encoded(conn, c) EXCEPT ![c].hst = "CLOSED"]
    /\ UNCHANGED <<clientVars, serverUp, execs>>

\* server.go:73-79: the crash request: encode the response, then leave the process
HandlerCrash(c) ==
    /\ conn[c].hst = "RESPOND"
    /\ ~conn[c].decodeErr
    /\ isCrash(conn[c].hreq)
    /\ conn' = osExit(Encoded(conn, c))
    /\ serverUp' = FALSE
    /\ UNCHANGED <<clientVars, execs>>

\* another client of the server opens a connection and writes its bytes
OtherConnect(p) ==
    /\ serverUp
    /\ conn[OtherConn].cst = "none"
    /\ conn' = [conn EXCEPT ![OtherConn] =
                  [NoConn EXCEPT !.cst = "open", !.hst = "pending", !.c2s = p.kind,
                                 !.wire = p.req,
                                 !.nReq = IF p.kind = "request" THEN 1 ELSE 0]]
    /\ UNCHANGED <<clientVars, serverUp, execs>>

(***************************************************************************)
(* Time.  Timers are exact: the clock does not pass an expiry before the   *)
(* owner of the timer has acted on it.  The server is not overloaded: a    *)
(* handler that can take a step takes it before the clock advances, so a   *)
(* handler is late only by what the slow operation makes it sleep.         *)
(***************************************************************************)
ClientTimed == pc \in {"dialing", "connected", "sent", "backoff"}

HandlerReady(c) ==
    \/ serverUp /\ conn[c].hst = "pending"
    \/ conn[c].hst = "AWAIT_REQUEST"
         /\ (conn[c].c2s # "none" \/ conn[c].cst = "closed")
    \/ conn[c].hst = "DISPATCH" /\ conn[c].hwake = 0
    \/ conn[c].hst = "RESPOND"

Sleeping(c) == conn[c].hst = "DISPATCH" /\ conn[c].hwake > 0

Timers ==
    (IF ClientTimed THEN {timer} ELSE {})
      \cup {conn[c].hwake : c \in {d \in ConnIds : Sleeping(d)}}

SetMin(S) == CHOOSE x \in S : \A y \in S : x <= y

\* the clock advances by d: to the next expiry
Advance ==
    /\ ClientTimed => timer > 0
    /\ \A c \in ConnIds : ~HandlerReady(c)
    /\ Timers # {}
    /\ LET d == SetMin(Timers) IN
         /\ timer' = IF ClientTimed THEN timer - d ELSE timer
         /\ conn' = [c \in ConnIds |->
                       IF Sleeping(c) THEN [conn[c] EXCEPT !.hwake = @ - d] ELSE conn[c]]
         /\ cur' = IF pc \in {"dialing", "connected", "sent"}
                   THEN [cur EXCEPT !.elapsed = @ + d] ELSE cur
    /\ UNCHANGED <<flags, req, attempt, pc, lastErr, printed, nCalls, nSleeps, sentReqs,
                   serverUp, execs>>

Next ==
    \/ StartAttempt
    \/ Exhausted
    \/ DialFail
    \/ DialOK
    \/ EncodeOK
    \/ EncodeFail
    \/ RecvResponse
    \/ RecvFail
    \/ RecvTimeout
    \/ Wake
    \/ \E c \in ConnIds : Accept(c)
    \/ \E c \in ConnIds : HandlerDecode(c)
    \/ \E c \in ConnIds : HandlerDecodeFail(c)
    \/ \E c \in ConnIds : HandlerProcessed(c)
    \/ \E c \in ConnIds : HandlerRespond(c)
    \/ \E c \in ConnIds : HandlerCrash(c)
    \/ Advance

\* the client and the server of this repository, alone
Spec == Init /\ [][Next]_vars

\* the processes are scheduled and time passes: a step that can be taken is
\* taken in the end
InitLive ==
    /\ Init
    /\ flags.timeout = 1
    /\ flags.method \in {mAdd, mSlow, mCrash, <<"N","o","p","e">>}
    /\ \A k \in DOMAIN flags.params : flags.params[k].t = "float64"

SpecLive == InitLive /\ [][Next]_vars /\ WF_vars(Next)

\* the server has a second client
InitShared ==
    /\ Init
    /\ flags.maxRetries = MaxRetries - 1
    /\ flags.timeout = MaxTimeoutSecs
    /\ flags.method \in {mAdd, mSlow, mCrash, <<"C","r","a","s","h">>}
    /\ \A k \in DOMAIN flags.params : flags.params[k].t = "float64"

NextShared ==
    \/ Next
    \/ \E p \in OtherPayloads : OtherConnect(p)

SpecShared == InitShared /\ [][NextShared]_vars

\* the address the client dials may answer with bytes of its own
\* instead of, or before, the handler's response
PeerRespond(a) ==
    /\ pc = "sent"
    /\ conn[attempt].s2c = <<>>
    /\ conn' = [conn EXCEPT ![attempt].s2c = <<a>>]
    /\ UNCHANGED <<clientVars, serverUp, execs>>

InitPeer ==
    /\ Init
    /\ flags.timeout = 1
    /\ flags.method \in {mAdd, mCrash}
    /\ \A k \in DOMAIN flags.params : flags.params[k].t = "float64"

NextPeer ==
    \/ Next
    \/ \E a \in PeerAnswers(cur.req) : PeerRespond(a)

SpecPeer == InitPeer /\ [][NextPeer]_vars

\* both: a second client, and a peer that answers with bytes of its own
InitOpen ==
    /\ Init
    /\ flags.timeout = 1
    /\ flags.method = mAdd
    /\ \A k \in DOMAIN flags.params : flags.params[k].t = "float64"

NextOpen ==
    \/ NextShared
    \/ \E a \in PeerAnswers(cur.req) : PeerRespond(a)

SpecOpen == InitOpen /\ [][NextOpen]_vars

\* the server is down, and the client is given many attempts
InitBackoff ==
    /\ flags \in { [method |-> mAdd, params |-> EmptyMap, timeout |-> 1, maxRetries |-> n] :
                   n \in {MaxAttempts - 1, MaxAttempts} }
    /\ Started
    /\ serverUp = FALSE

NextBackoff ==
    \/ StartAttempt
    \/ Exhausted
    \/ DialFail
    \/ Wake
    \/ Advance

SpecBackoff == InitBackoff /\ [][NextBackoff]_vars


(***************************************************************************)
(* Properties.                                                             *)
(***************************************************************************)
Terminal == pc \in {"success", "exhausted"}
AttemptConns == 1..MaxRetries

\* C1: the client never makes more than maxRetries calls of sendRequest; when it
\* reports that all attempts failed it has made exactly maxRetries calls, the
\* loop variable stands at maxRetries + 1 without that attempt having started,
\* and the error it reports is the error of the last call.
C1_AttemptBudget ==
    /\ nCalls <= flags.maxRetries
    /\ attempt <= flags.maxRetries + 1
    /\ attempt = flags.maxRetries + 1 => pc \in {"loop", "exhausted"}
    /\ pc = "exhausted" =>
         /\ nCalls = flags.maxRetries
         /\ attempt = flags.maxRetries + 1
         /\ flags.maxRetries >= 1 => lastErr = cur.err /\ ~isSuccess(lastErr)

C1_Witness ==
    /\ pc = "exhausted"
    /\ flags.maxRetries = MaxRetries
    /\ nCalls = MaxRetries
    /\ lastErr = Err("dial error", "timeout")

\* C2 (as claimed): a response that passes the check of sendRequest, whatever its
\* status, carries exactly the id of the request.
C2_ExactCallId == cur.hasResp => cur.resp.id = cur.req.id

\* C3: every call of sendRequest is handed the request built before the loop,
\* and every request written on a connection is that request.
C3_SameRequest ==
    /\ sentReqs \subseteq {req}
    /\ req = Req(req.id, flags.method, flags.params)
    /\ req.id \in CallIds
    /\ cur.req \in {NoReq, req}
    /\ \A c \in AttemptConns : conn[c].c2s = "request" => conn[c].wire = req

C3_Witness ==
    /\ nCalls = MaxRetries
    /\ pc = "sent"
    /\ sentReqs = {req}
    /\ conn[MaxRetries].wire = req


Pending == Err("pending", "")

\* C4: main ends in success exactly when the latest call of sendRequest returned
\* a response with status OK and the id of the request; it then prints that
\* response, the call was the one of the current loop round, and main has slept
\* once for each earlier round and not after this one.
C4_SuccessOnlyOnOK ==
    /\ (pc = "success") <=> (cur.err = NilErr)
    /\ (pc = "success") <=> (printed # NoResp)
    /\ pc = "success" =>
         /\ cur.hasResp
         /\ cur.resp.status = "OK"
         /\ cur.resp.id = req.id
         /\ printed = cur.resp
         /\ conn[attempt].nRead = 1
         /\ nCalls = attempt
         /\ nSleeps = attempt - 1
    /\ cur.hasResp /\ cur.resp.status # "OK" => pc # "success"

C4_Witness ==
    /\ pc = "success"
    /\ attempt = 2
    /\ nSleeps = 1
    /\ printed = Resp(req.id, "OK", IntVal(12), NoErrMsg)

\* C5: a call of sendRequest that failed, whatever the failure, leaves main in
\* its backoff, at the loop test or at the final report, with lastErr that
\* failure, and the final report comes only after maxRetries calls; a call whose
\* operation the server answers with ERROR never succeeds, each of its
\* responses is a server error, and it ends after maxRetries calls.
C5_AllFailuresRetried ==
    /\ cur.err \notin {NilErr, Pending} =>
         /\ pc \in {"backoff", "loop", "exhausted"}
         /\ lastErr = cur.err
         /\ pc = "exhausted" => nCalls = flags.maxRetries
    /\ processRequest(req).status = "ERROR" =>
         /\ pc # "success"
         /\ cur.hasResp => cur.err = Err("server error", "") /\ cur.resp.status = "ERROR"
         /\ pc = "exhausted" => nCalls = flags.maxRetries

C5_Witness ==
    /\ pc = "exhausted"
    /\ flags.method = <<"N","o","p","e">>
    /\ flags.maxRetries = MaxRetries
    /\ execs = MaxRetries
    /\ lastErr = Err("server error", "")
    /\ cur.resp.error = ErrMsg("unknown method '%s'", <<"N","o","p","e">>)

\* the call is a slow one that sleeps longer than the timeout of an attempt
SlowCall ==
    /\ ToLower(flags.method) = mSlow
    /\ slowSecs(flags.params) * MsPerSec > TimeoutMs

\* C6: when the slow operation sleeps longer than the timeout, no call of
\* sendRequest reads a response, every call that wrote its request ends in a
\* timeout no earlier than the timeout after it started, main never succeeds and
\* it reports failure after maxRetries calls.
C6_SlowTimesOut ==
    SlowCall =>
      /\ pc # "success"
      /\ ~cur.hasResp
      /\ \A c \in AttemptConns : conn[c].nRead = 0
      /\ cur.wrote /\ cur.err # Pending =>
           cur.err = Err("decode/receive", "timeout") /\ cur.elapsed >= TimeoutMs
      /\ pc = "exhausted" => nCalls = flags.maxRetries

\* the handler of attempt 1 has finished and closed while attempt 3 is waiting
C6_Witness ==
    /\ SlowCall
    /\ flags.timeout = 2
    /\ slowSecs(flags.params) = 5
    /\ flags.maxRetries = 3
    /\ attempt = 3
    /\ pc = "sent"
    /\ conn[1].hst = "CLOSED" /\ conn[1].nEnc = 1 /\ conn[1].nDisp = 1
    /\ conn[2].hst = "DISPATCH"
    /\ lastErr = Err("decode/receive", "timeout")


C7_Down ==
    /\ ~serverUp => \A c \in ConnIds : ~HandlerLive(conn[c])
    /\ \A c \in ConnIds :
         /\ conn[c].hst = "KILLED" => ~serverUp
         /\ conn[c].nDisp = 1 /\ isCrash(conn[c].hreq) =>
              /\ conn[c].hst # "CLOSED"
              /\ conn[c].nEnc <= 1
              /\ conn[c].nEnc = 1 =>
                   ~serverUp /\ conn[c].hresp = processRequest(conn[c].hreq)
    /\ ~serverUp /\ pc = "backoff" /\ conn[attempt].cst = "none" =>
         cur.err.kind = "dial error"

C7_Exit ==
    /\ serverUp /\ ~serverUp' =>
         \E c \in ConnIds :
           /\ conn[c].hst = "RESPOND" /\ isCrash(conn[c].hreq)
           /\ conn'[c].hst = "KILLED" /\ conn'[c].nEnc = 1
    /\ \A c \in ConnIds :
         conn[c].hst = "RESPOND" /\ isCrash(conn[c].hreq) /\ ~conn[c].decodeErr
           /\ conn'[c].hst # "RESPOND" => ~serverUp'
    /\ ~serverUp =>
         /\ ~serverUp'
         /\ execs' = execs
         /\ \A c \in ConnIds :
              /\ conn'[c].cst = "open" => conn[c].cst = "open"
              /\ conn'[c].nDisp <= conn[c].nDisp
              /\ conn'[c].nEnc <= conn[c].nEnc
              /\ Len(conn'[c].s2c) <= Len(conn[c].s2c)

\* C7: a handler whose request is crash never closes its connection in the
\* normal way: it encodes its response once and the process exits, whatever
\* else the server is doing.  The process exits for no other reason.  Once it
\* has exited it stays down, no handler is left that could accept, process or
\* respond, nothing more is processed or sent, and no connection is set up:
\* an attempt that starts afterwards fails with a dial error.
C7_CrashStopsServer == []C7_Down /\ [][C7_Exit]_vars

\* the other client's crash killed the sleeping handler of attempt 1, and
\* attempt 2 failed to connect
C7_Witness ==
    /\ ~serverUp
    /\ flags.method = mSlow
    /\ conn[OtherConn].nEnc = 1 /\ conn[OtherConn].hst = "KILLED"
    /\ conn[1].hst = "KILLED" /\ conn[1].nDisp = 1 /\ conn[1].nEnc = 0
    /\ attempt = 2
    /\ pc = "backoff"
    /\ cur.err = Err("dial error", "refused")

\* C8: the server calls processRequest for the client's request id at most once
\* per call of sendRequest, each time with the client's request, and nothing
\* keeps it from doing so more than once for the same id.
C8_AtLeastOnce ==
    /\ execs <= nCalls
    /\ \A c \in AttemptConns :
         /\ conn[c].nDisp <= 1
         /\ conn[c].nDisp = 1 => conn[c].hreq = req
         /\ c > nCalls => conn[c] = NoConn

\* two handlers are processing the same request id; the client has given up on
\* the first
C8_Witness ==
    /\ execs = 2
    /\ conn[1].hst = "DISPATCH" /\ conn[1].cst = "closed"
    /\ conn[2].hst = "DISPATCH" /\ conn[2].cst = "open"
    /\ conn[1].hreq.id = conn[2].hreq.id
    /\ pc = "sent"

HandlerRank(h) ==
    CASE h = "none" -> 0
      [] h = "pending" -> 1
      [] h = "AWAIT_REQUEST" -> 2
      [] h = "DISPATCH" -> 3
      [] h = "RESPOND" -> 4
      [] OTHER -> 5

ClientRank(x) == CASE x = "none" -> 0 [] x = "open" -> 1 [] OTHER -> 2

C9_Counts ==
    \A c \in ConnIds :
      LET h == conn[c] IN
      /\ h.nReq <= 1 /\ h.nDec <= h.nReq /\ h.nDisp = h.nDec
      /\ h.nEnc <= 1 /\ h.nRead <= h.nEnc /\ Len(h.s2c) <= 1 - h.nRead
      /\ h.nEnc = 1 => h.hst \in {"CLOSED", "KILLED"}
      /\ h.hst \in {"none", "pending", "AWAIT_REQUEST"} => h.nDec = 0
      /\ h.hst = "DISPATCH" => h.nDec = 1
      /\ c \in AttemptConns /\ h.cst = "open" => c = attempt /\ pc \in {"connected", "sent"}
      /\ c \in AttemptConns /\ c > nCalls => h = NoConn

C9_Forward ==
    \A c \in ConnIds :
      /\ HandlerRank(conn'[c].hst) >= HandlerRank(conn[c].hst)
      /\ ClientRank(conn'[c].cst) >= ClientRank(conn[c].cst)

\* C9: on every connection the client writes at most one request and reads at
\* most one response, the handler decodes at most one request, calls
\* processRequest at most once and encodes at most one response, after which the
\* connection is closed; a handler only moves forward through AWAIT_REQUEST,
\* DISPATCH, RESPOND, CLOSED, an end of a connection that is closed stays
\* closed, and only the connection of the current attempt is open.
C9_OneShot == []C9_Counts /\ [][C9_Forward]_vars

C9_Witness ==
    /\ conn[1].nReq = 1 /\ conn[1].nDec = 1 /\ conn[1].nDisp = 1
    /\ conn[1].nEnc = 1 /\ conn[1].nRead = 1
    /\ conn[1].hst = "CLOSED" /\ conn[1].cst = "closed"

\* the method table: the cases of processRequest's switch
InTable(m) == ToLower(m) \in {mAdd, mReverse, mGetTime, mSlow, mEcho}

Numeric(v) == v.t \in {"float64", "int"} \/ (v.t = "string" /\ Atoi(v.str).ok)

\* the request names no operation of the table, or lacks a parameter, or has
\* one of the wrong type
AppFault(r) ==
    \/ ~InTable(r.method)
    \/ /\ ToLower(r.method) = mAdd
       /\ \E k \in {"a", "b"} : k \notin DOMAIN r.params \/ ~Numeric(r.params[k])
    \/ /\ ToLower(r.method) = mReverse
       /\ ("s" \notin DOMAIN r.params \/ r.params["s"].t # "string")

\* the handler of connection c has composed its response to a faulty request
Faulted(c) ==
    /\ conn[c].nDec = 1
    /\ AppFault(conn[c].hreq)
    /\ conn[c].hst \in {"RESPOND", "CLOSED", "KILLED"}

\* the response is an ERROR response with a message, no result and the
\* request's id, and for an operation that is not in the table the message
\* carries the name as it was sent
ErrorResponseOK(h) ==
    /\ h.hresp.status = "ERROR"
    /\ h.hresp.error.fmt # ""
    /\ h.hresp.result = NoResult
    /\ h.hresp.id = h.hreq.id
    /\ ~InTable(h.hreq.method) =>
         h.hresp.error = ErrMsg("unknown method '%s'", h.hreq.method)

\* C10 (as claimed): the response to a decoded request that names no operation
\* of the table, lacks a parameter or has one of the wrong type is such an
\* ERROR response; once the handler has left RESPOND the response has been
\* encoded on the connection exactly once, the connection is closed in the
\* normal way and the server is still running.
C10_FaultsKeepServing ==
    \A c \in ConnIds :
      Faulted(c) =>
        /\ ErrorResponseOK(conn[c])
        /\ conn[c].hst # "RESPOND" =>
             conn[c].hst = "CLOSED" /\ conn[c].nEnc = 1 /\ serverUp

\* C10 (amended): as claimed, but once the handler has left RESPOND the
\* connection is closed in the normal way and the server is still running if
\* the operation is not crash, and the server is down if it is.
C10_FaultsAnswered ==
    \A c \in ConnIds :
      Faulted(c) =>
        /\ ErrorResponseOK(conn[c])
        /\ conn[c].hst = "RESPOND" => serverUp
        /\ conn[c].hst # "RESPOND" =>
             /\ conn[c].nEnc = 1
             /\ IF isCrash(conn[c].hreq)
                THEN conn[c].hst = "KILLED" /\ ~serverUp
                ELSE conn[c].hst = "CLOSED" /\ serverUp

\* the second attempt of a call with a missing parameter has been answered
C10_Witness ==
    /\ flags.method = <<"A","D","D">>
    /\ attempt = 2
    /\ Faulted(2)
    /\ conn[2].hst = "CLOSED"
    /\ conn[2].hresp = Resp(req.id, "ERROR", NoResult, ErrMsg("missing param '%s'", <<"b">>))
    /\ cur.resp = conn[2].hresp
    /\ serverUp


DecodeErrorResponse == errorResponse(<<>>, "invalid json")

\* C11: a handler that could not decode a request (bytes that are no request,
\* or a peer that closed before sending any) has decoded and dispatched
\* nothing, its response is the ERROR response with the empty id, it encodes
\* that response at most once and exactly once before it closes the
\* connection; a handler that closed without having decoded a request is such
\* a handler.  A client that decodes a response with an empty id, its own id
\* not being empty, returns the mismatched-id error: it has no response, prints
\* nothing and goes on to back off.
C11_DecodeFailure ==
    /\ \A c \in ConnIds :
         LET h == conn[c] IN
         /\ h.decodeErr =>
              /\ h.nDec = 0 /\ h.nDisp = 0 /\ h.hreq = NoReq
              /\ h.hresp = DecodeErrorResponse
              /\ h.hresp.id = <<>> /\ h.hresp.status = "ERROR"
              /\ h.hst \in {"RESPOND", "CLOSED", "KILLED"}
              /\ h.nEnc <= 1
              /\ h.hst = "CLOSED" => h.nEnc = 1
              /\ h.hst = "RESPOND" => h.nEnc = 0
         /\ h.hst \in {"RESPOND", "CLOSED"} /\ h.nDec = 0 /\ h # Gone => h.decodeErr
         /\ h.c2s = "garbage" => h.nDec = 0
    /\ cur.got.kind = "response" /\ cur.got.resp.id = <<>> /\ req.id # <<>> =>
         /\ cur.err = Err("mismatched request id", "")
         /\ ~cur.hasResp
         /\ printed = NoResp
         /\ lastErr = cur.err
         /\ pc \in {"backoff", "loop", "exhausted"}

\* the handler of the other client's connection has answered bytes that are no
\* request, and the client has decoded an equal response on its own connection
C11_Witness ==
    /\ conn[OtherConn].c2s = "garbage"
    /\ conn[OtherConn].decodeErr
    /\ conn[OtherConn].hst = "CLOSED"
    /\ conn[OtherConn].nEnc = 1
    /\ conn[OtherConn].s2c = <<Bytes(DecodeErrorResponse)>>
    /\ cur.got = Bytes(DecodeErrorResponse)
    /\ cur.err = Err("mismatched request id", "")
    /\ pc = "backoff"


\* base_delay * 2^(k-1) milliseconds as a Duration, on twice the bytes: exact
\* for every k the model reaches
exactBackoff(k) == Milliseconds(MulSmall(Shl1(2 * WordLen, k - 1), BaseDelayMs))

Widened(w) == w \o [i \in 1..WordLen |-> 0]

\* C12 (as claimed): the Duration the client sleeps after failed attempt k,
\* k < max_attempts, is not negative and is at least base_delay * 2^(k-1).
C12_DelayAtLeastBackoff ==
    pc = "backoff" /\ attempt < flags.maxRetries =>
      /\ ~Negative(cur.slept)
      /\ GeqWord(Widened(cur.slept), exactBackoff(attempt))


\* C13 (as claimed): the Duration the client sleeps after failed attempt k is
\* at least the backoff of attempt k (the jitter is not negative) and strictly
\* less than that backoff plus 200 ms (the jitter is below 200).
C13_DelayBelowBound ==
    pc = "backoff" =>
      /\ GeqWord(cur.slept, backoff(attempt))
      /\ ~GeqWord(cur.slept,
                  AddWord(backoff(attempt), Milliseconds(FromInt(WordLen, JitterMax))))


\* a JSON number, or a string that is a decimal integer
Coercible(v) == v.t \in {"float64", "int"} \/ (v.t = "string" /\ Atoi(v.str).ok)

\* the number a coercible value stands for, in tenths
Tenths(v) ==
    CASE v.t = "float64" -> v.num
      [] v.t = "int" -> 10 * v.num
      [] OTHER -> 10 * Atoi(v.str).v

\* the handler of connection c has composed its response to an add request
\* that has both parameters
AddAnswered(c) ==
    /\ conn[c].nDec = 1
    /\ conn[c].hst \in {"RESPOND", "CLOSED", "KILLED"}
    /\ ToLower(conn[c].hreq.method) = mAdd
    /\ {"a", "b"} \subseteq DOMAIN conn[c].hreq.params

\* C14 (as claimed): the response to an add request whose a and b are numbers,
\* with or without a fractional part, or numeric strings has status OK and the
\* arithmetic sum of a and b for its result; if a or b is a non-numeric string,
\* a boolean or a null its status is ERROR.
C14_AddSums ==
    \A c \in ConnIds :
      AddAnswered(c) =>
        LET a == conn[c].hreq.params["a"]
            b == conn[c].hreq.params["b"]
        IN  IF Coercible(a) /\ Coercible(b)
            THEN /\ conn[c].hresp.status = "OK"
                 /\ 10 * conn[c].hresp.result.num = Tenths(a) + Tenths(b)
            ELSE conn[c].hresp.status = "ERROR"


\* C15 (as claimed): main sleeps only after a failed attempt that is not the
\* last one, so a call of n >= 1 attempts that all fail has slept n - 1 times
\* when it reports that all attempts failed.
C15_SleepsBetweenAttempts ==
    /\ pc = "backoff" => attempt < flags.maxRetries
    /\ pc = "exhausted" /\ flags.maxRetries >= 1 => nSleeps = flags.maxRetries - 1


\* C16 (as claimed): the time since sendRequest was called never exceeds the
\* timeout, and once the connection is set up the time left for the write and
\* the read is what the connecting has left of the timeout.
C16_OneDeadline ==
    /\ cur.elapsed <= TimeoutMs
    /\ pc \in {"connected", "sent"} => cur.elapsed + timer <= TimeoutMs


OpenConns == {c \in AttemptConns : conn[c].cst = "open"}

C17_Single ==
    /\ Cardinality(OpenConns) <= 1
    /\ \A c \in OpenConns : c = attempt /\ pc \in {"connected", "sent"}
    /\ pc \in {"dialing", "connected", "sent"} =>
         /\ nCalls = attempt
         /\ cur.err = Pending
         /\ \A c \in AttemptConns :
              /\ c < attempt => conn[c].cst \in {"none", "closed"}
              /\ c > attempt => conn[c] = NoConn
    /\ pc \in {"loop", "backoff", "success", "exhausted"} => OpenConns = {}

C17_Opening ==
    \A c \in AttemptConns :
      conn[c].cst # "open" /\ conn'[c].cst = "open" =>
        /\ pc = "dialing" /\ c = attempt /\ conn[c].cst = "none"
        /\ OpenConns = {}
        /\ nCalls = c

\* C17: at most one connection of the client is open at any time, and it is
\* the one of the current call of sendRequest; a connection is opened only by
\* the current call, when every earlier call has returned and closed its
\* connection; between calls no connection is open.
C17_OneInFlight == []C17_Single /\ [][C17_Opening]_vars

\* the third attempt waits on its connection while the handlers of all three
\* attempts are still processing
C17_Witness ==
    /\ pc = "sent" /\ attempt = 3
    /\ conn[3].cst = "open"
    /\ conn[1].cst = "closed" /\ conn[2].cst = "closed"
    /\ \A c \in 1..3 : conn[c].hst = "DISPATCH" /\ conn[c].hreq = req


C18_Outcome ==
    /\ pc = "success" =>
         /\ cur.err = NilErr /\ cur.hasResp /\ printed = cur.resp
         /\ cur.got = Bytes(printed)
         /\ conn[attempt].nRead = 1
    /\ pc = "exhausted" =>
         /\ printed = NoResp
         /\ flags.maxRetries >= 1 => lastErr = cur.err /\ lastErr \notin {NilErr, Pending}
         /\ flags.maxRetries = 0 => lastErr = NilErr /\ nCalls = 0
    /\ printed # NoResp => pc = "success"

C18_Final ==
    Terminal => pc' = pc /\ printed' = printed /\ lastErr' = lastErr /\ nCalls' = nCalls

\* C18: the client reaches success or exhaustion in the end; at success it has
\* printed the response its last call of sendRequest decoded and returned with
\* a nil error, at exhaustion it has printed nothing and reports the error of
\* its last call; it prints nothing in any other state, and an outcome once
\* reached does not change.
C18_Terminates == <>Terminal /\ []C18_Outcome /\ [][C18_Final]_vars

\* the call of crash has ended in exhaustion with the server down
C18_Witness ==
    /\ pc = "exhausted"
    /\ isCrash(req)
    /\ ~serverUp
    /\ flags.maxRetries = 2
    /\ lastErr = Err("dial error", "refused")
    /\ printed = NoResp


\* the connection of the latest call of sendRequest
CurConn == conn[nCalls]

C19_OwnConnection ==
    /\ \A c \in AttemptConns :
         /\ Len(conn[c].s2c) <= conn[c].nEnc
         /\ conn[c].nRead <= conn[c].nEnc
         /\ conn[c].s2c # <<>> =>
              conn[c].s2c = <<Bytes(conn[c].hresp)>> /\ conn[c].cst = "open"
         /\ conn[c].cst = "closed" => conn[c].s2c = <<>>
    /\ cur.got # NoBytes =>
         /\ nCalls >= 1
         /\ CurConn.nEnc = 1 /\ CurConn.nRead = 1
         /\ cur.got = Bytes(CurConn.hresp)
         /\ CurConn.hreq = cur.req

C19_LateResponse ==
    \A c \in ConnIds :
      conn'[c].nEnc > conn[c].nEnc =>
        /\ \A d \in ConnIds \ {c} : conn'[d].s2c = conn[d].s2c /\ conn'[d].nEnc = conn[d].nEnc
        /\ conn[c].cst = "closed" => conn'[c].s2c = <<>>
        /\ UNCHANGED clientVars

\* C19: the bytes waiting on a connection of the client are the one response
\* the handler of that connection encoded; what a call of sendRequest decodes
\* is the response of the handler that decoded the request of that call; a
\* handler that encodes its response writes to no other connection and
\* changes nothing in the client, and if the client has closed the connection
\* the response reaches nobody.
C19_ResponseOnOwnConnection == []C19_OwnConnection /\ [][C19_LateResponse]_vars

\* the handler of attempt 1 has encoded its response, with the id that the
\* request of attempt 3 has too, after the client closed connection 1; attempt
\* 3 is waiting and has received nothing
C19_Witness ==
    /\ pc = "sent" /\ attempt = 3
    /\ conn[1].cst = "closed" /\ conn[1].hst = "CLOSED" /\ conn[1].nEnc = 1
    /\ conn[1].hresp.id = cur.req.id /\ conn[1].hresp.status = "OK"
    /\ conn[1].s2c = <<>> /\ conn[1].nRead = 0
    /\ conn[3].cst = "open" /\ conn[3].hst = "DISPATCH" /\ conn[3].s2c = <<>>
    /\ cur.got = NoBytes


CrashResponse == Resp(req.id, "ERROR", NoResult, ErrMsg("unknown method '%s'", req.method))

C20_NoSuccess ==
    isCrash(req) =>
      /\ pc # "success" /\ printed = NoResp
      /\ processRequest(req) = CrashResponse
      /\ execs <= 1
      /\ execs = 1 /\ (\A c \in AttemptConns : conn[c].hst \notin {"DISPATCH", "RESPOND"})
           => ~serverUp
      /\ \A c \in AttemptConns :
           conn[c].nDec = 1 /\ conn[c].hst \in {"RESPOND", "CLOSED", "KILLED"} =>
             /\ conn[c].hresp = CrashResponse
             /\ conn[c].hst # "CLOSED"
      /\ cur.got # NoBytes =>
           /\ cur.got = Bytes(CrashResponse)
           /\ cur.hasResp /\ cur.resp = CrashResponse
           /\ cur.err = Err("server error", "")
      /\ ~serverUp /\ nCalls >= 1 /\ CurConn.cst = "none" /\ cur.err # Pending =>
           cur.err.kind = "dial error"

\* C20: in a call of crash to this server, processRequest answers with the
\* ERROR response for an unknown method, and that is the response of every
\* handler that has decoded the request and the only response the client can
\* decode; the server handles the request at most once, then it is down and a
\* call of sendRequest that gets no connection ends in a dial error; the client
\* never reaches success and prints nothing, and it reaches exhaustion in the
\* end.
C20_CrashNeverSucceeds == []C20_NoSuccess /\ (isCrash(req) => <>(pc = "exhausted"))

\* the first attempt has read the response the handler sent before the exit
C20_Witness ==
    /\ isCrash(req)
    /\ pc = "backoff" /\ attempt = 1
    /\ ~serverUp
    /\ conn[1].hst = "KILLED" /\ conn[1].nEnc = 1 /\ conn[1].nRead = 1
    /\ cur.resp = CrashResponse
    /\ lastErr = Err("server error", "")

====
